---- MODULE Spec2Model ----
(***************************************************************************)
(* A model of fiftyone/core/session.py: the module globals (_session,      *)
(* _server_services, _subscribed_sessions), the Session object with its    *)
(* StateDescription, and the public operations launch_app, close_app,      *)
(* Session(...), __del__, show, the dataset/view setters, clear_dataset,   *)
(* clear_view, refresh and close.                                          *)
(*                                                                         *)
(* Every operation is one atomic action (the module is single-threaded     *)
(* from the caller's side).  The body of an operation is written as the    *)
(* sequence of elementary steps the code executes, in source order, and    *)
(* run by the interpreter Exec, which also records the events of the call  *)
(* (writes, reloads, catalog refreshes, pushes, renders) in lastCall.       *)
(***************************************************************************)
EXTENDS Integers, Sequences, FiniteSets

\* ---------------------------------------------------------------- bounds
\* how many Session objects are ever constructed
MaxSessions == 2
\* the failable calls of one operation are numbered 1..MaxFailPoint
MaxFailPoint == 5

\* ------------------------------------------------------------ value sets
SessionIds == 1..MaxSessions
NoSession == 0                       \* the value None of the global _session
Ports == {5151, 7000}
NONE == "NONE"
IPYTHON == "IPYTHON"
COLAB == "COLAB"
Contexts == {NONE, IPYTHON, COLAB}
None == "None"
Datasets == {"d1", "d2"}
Views == {"v1"}
DefaultHeight == 800
Heights == {DefaultHeight, 600}
\* what fod.list_datasets() may return
Catalogs == {<<"d1">>, <<"d1", "d2">>}
\* what the App writes back into the state
SomeSelected == <<"id1">>
SomeObjects == <<[object_id |-> "o1", sample_id |-> "id1", field |-> "gt"]>>
SomeFilters == {<<"label", "cat">>}

\* view._dataset: the dataset a view belongs to
_dataset(view) == "d1"

VARIABLES
    context,                \* focx._get_context() of this python process
    _session,               \* the proxy Session of launch_app / close_app
    _server_services,       \* the ports that have a ServerService entry
    _subscribed_sessions,   \* port -> set of subscribed sessions
    processes,              \* port -> number of running server processes
    sessions,               \* session id -> the Session object
    lastCall                \* the last operation called, with its events

vars == <<context, _session, _server_services, _subscribed_sessions,
          processes, sessions, lastCall>>

\* ------------------------------------------------------ StateDescription
EmptyState ==
    [datasets |-> <<>>, dataset |-> None, view |-> None, selected |-> <<>>,
     selected_objects |-> <<>>, filters |-> {}, close |-> FALSE]

\* A Session object.  status is "unborn" before Session(...) is called,
\* "active" once __init__ has returned, "failed" when __init__ raised and
\* "destroyed" after __del__.  has_start_time says whether __init__ got as far
\* as setting _start_time (and _desktop before it).  pc is where the calling
\* thread is inside wait(): "idle" (not in wait), "service_wait" (line 541),
\* "sleep_loop" (lines 543-544) or "app_wait" (line 546).
Unborn ==
    [status |-> "unborn", _port |-> 0, _remote |-> FALSE, _desktop |-> FALSE,
     _context |-> NONE, _auto |-> FALSE, _height |-> DefaultHeight,
     _disable_wait_warning |-> FALSE, has_start_time |-> FALSE,
     _app_service |-> FALSE, state |-> EmptyState, pc |-> "idle"]

\* ------------------------------------------------------------------ steps
\* One elementary step of a method body; f and v are its operands.
Step(k, f, v) == [k |-> k, f |-> f, v |-> v]
Write(f, v) == Step("write", f, v)
Reload(d) == Step("reload", "", d)
Refresh(cat) == Step("refresh", "", cat)
Push == Step("push", "", "")
Render(port, height) == Step("render", port, height)
Raise(why) == Step("raise", why, "")

\* Session.dataset (getter)
dataset_of(state) ==
    IF state.view # None THEN _dataset(state.view) ELSE state.dataset

\* The calls to collaborators that may raise: the dataset listing and the push.
Failable(k) == k \in {"refresh", "push"}

\* Runs steps on a StateDescription.  n counts down to the failable call that
\* raises (0: none does).  An exception ends the call there: no method of the
\* module catches one.
RECURSIVE Exec(_, _, _, _)
Exec(steps, state, events, n) ==
    IF steps = <<>>
    THEN [state |-> state, events |-> events, outcome |-> "ok"]
    ELSE LET s == Head(steps)
             rest == Tail(steps)
             m == IF n > 0 /\ Failable(s.k) THEN n - 1 ELSE n
         IN  IF s.k = "raise" \/ (Failable(s.k) /\ n = 1)
             THEN [state |-> state,
                   events |-> Append(events, Step("raise", s.f, s.k)),
                   outcome |-> "error"]
             ELSE IF s.k = "write"
             THEN Exec(rest, [state EXCEPT ![s.f] = s.v], Append(events, s), m)
             ELSE IF s.k = "refresh"
             THEN Exec(rest, [state EXCEPT !.datasets = s.v],
                       Append(events, s), m)
             ELSE IF s.k = "push"
             THEN Exec(rest, state, Append(events, Step("push", "", state)), m)
             ELSE IF s.k = "reload_doc"
             THEN IF dataset_of(state) # None
                  THEN Exec(rest, state,
                            Append(events, Reload(dataset_of(state))), m)
                  ELSE Exec(rest, state, events, m)
             ELSE Exec(rest, state, Append(events, s), m)

\* ------------------------------------------------------- method bodies
\* The decorator _update_state: the wrapped body, then the catalog refresh,
\* then the push.
_update_state(func, cat) == func \o <<Refresh(cat), Push>>

\* lines 358-359 left out: the session's configured height is ignored
ShowHeightArgument(self, height) == height

\* The height show() renders with.
ShowHeight(self, height) ==
    IF height # DefaultHeight THEN height
    ELSE IF self._height # DefaultHeight THEN self._height
    ELSE height

ShowBody(self, height, cat) ==
    IF self._context = NONE
    THEN <<Step("warn", "", "")>>
    ELSE <<Step("reload_doc", "", ""), Refresh(cat),
           Render(self._port, ShowHeight(self, height))>>

show(self, height, cat) == _update_state(ShowBody(self, height, cat), cat)

\* Whether _auto_show() calls show().
AutoShows(self) == self._context # NONE /\ self._auto

_auto_show(self, cat) ==
    IF AutoShows(self) THEN show(self, DefaultHeight, cat) ELSE <<>>

\* the write of line 381 / 413 left out
ClearSelectionKeepsFilters ==
    <<Write("selected", <<>>), Write("selected_objects", <<>>)>>

\* lines 379-381 and 411-413
ClearSelection ==
    <<Write("selected", <<>>), Write("selected_objects", <<>>),
      Write("filters", {})>>

\* line 382 moved up to line 379: the App is shown before the selection is
\* cleared
DatasetSetterBodyShowsFirst(self, dataset, cat) ==
    (IF dataset # None THEN <<Reload(dataset)>> ELSE <<>>)
    \o <<Write("dataset", dataset), Write("view", None)>>
    \o _auto_show(self, cat)
    \o ClearSelection

DatasetSetterBody(self, dataset, cat) ==
    (IF dataset # None THEN <<Reload(dataset)>> ELSE <<>>)
    \o <<Write("dataset", dataset), Write("view", None)>>
    \o ClearSelection
    \o _auto_show(self, cat)

set_dataset(self, dataset, cat) ==
    _update_state(DatasetSetterBody(self, dataset, cat), cat)

ViewSetterBody(self, view, cat) ==
    <<Write("view", view)>>
    \o (IF view # None
        THEN <<Write("dataset", _dataset(view)), Reload(_dataset(view))>>
        ELSE <<>>)
    \o ClearSelection
    \o _auto_show(self, cat)

set_view(self, view, cat) == _update_state(ViewSetterBody(self, view, cat), cat)

clear_dataset(self, cat) == _update_state(<<Write("dataset", None)>>, cat)

clear_view(self, cat) ==
    _update_state(<<Write("view", None)>> \o _auto_show(self, cat), cat)

refresh(self, cat) == _update_state(_auto_show(self, cat), cat)

\* the check of lines 490-491 left out: a remote session is closed too
CloseRemoteToo(self) == <<Write("close", TRUE), Push>>

\* Session.close; line 494 is Session._update_state (lines 553-555), a push
\* without a catalog refresh
close(self) ==
    IF self._remote THEN <<>> ELSE <<Write("close", TRUE), Push>>

\* the check of lines 470-471 left out: a remote session opens the App
OpenWithoutRemoteCheck(self) ==
    IF self._context # NONE THEN <<Raise("notebook_open")>>
    ELSE IF ~self._desktop THEN <<Step("browser", self._port, "")>>
    ELSE <<Step("desktop_start", self._port, "")>>

\* Session.open
open(self) ==
    IF self._remote THEN <<Raise("remote_open")>>
    ELSE IF self._context # NONE THEN <<Raise("notebook_open")>>
    ELSE IF ~self._desktop THEN <<Step("browser", self._port, "")>>
    ELSE <<Step("desktop_start", self._port, "")>>

\* ------------------------------------------------------------ __init__
\* The arguments of Session(...) and launch_app(...): desktop is None,
\* "True" or "False".
DesktopArgs == {None, "True", "False"}

\* lines 261-267: the desktop mode of the session
ResolveDesktop(ctx, desktop, desktop_app) ==
    IF desktop = None
    THEN (IF ctx = NONE THEN desktop_app ELSE FALSE)
    ELSE desktop = "True"

\* lines 256-259: the initial view or dataset goes through the setters
InitialSteps(self, dataset, view, cat) ==
    IF view # None THEN set_view(self, view, cat)
    ELSE IF dataset # None THEN set_dataset(self, dataset, cat)
    ELSE <<>>

\* the check of lines 291-295 left out
ValidateStepsNoDesktopCheck(self, desktop_ok) ==
    IF self._remote /\ self._context # NONE
    THEN <<Raise("remote_notebook")>>
    ELSE IF self._remote THEN <<>>
    ELSE IF self._context = NONE
    THEN IF self._desktop
         THEN IF desktop_ok
              THEN <<Step("app_service", self._port, "")>>
              ELSE <<Raise("desktop_missing")>>
         ELSE <<Step("browser", self._port, "")>>
    ELSE <<>>

\* lines 271-295: the checks of the remote/notebook/desktop combination and
\* the first opening of the App.  desktop_ok: the fiftyone.desktop package
\* imports, or this is a development install.
ValidateSteps(self, desktop_ok) ==
    IF self._remote /\ self._context # NONE
    THEN <<Raise("remote_notebook")>>
    ELSE IF self._remote THEN <<>>
    ELSE IF self._context = NONE
    THEN IF self._desktop
         THEN IF desktop_ok
              THEN <<Step("app_service", self._port, "")>>
              ELSE <<Raise("desktop_missing")>>
         ELSE open(self)
    ELSE IF self._desktop THEN <<Raise("desktop_notebook")>>
    ELSE <<>>

\* the check of line 247 left out: every __init__ starts a server process
StartsServiceAlways(services, port) == TRUE

\* lines 247-250: a server process is started when the port has none
StartsService(services, port) == port \notin services

ServicesAfterInit(services, port) == services \cup {port}

ProcessesAfterInit(procs, services, port) ==
    IF StartsService(services, port)
    THEN [procs EXCEPT ![port] = @ + 1]
    ELSE procs

\* line 253
SubscribedAfterInit(subs, port, s) == [subs EXCEPT ![port] = @ \cup {s}]

\* The Session object __init__ leaves behind, with the events of the call.
\* a: the arguments; e: what the environment answers during the call
\* (desktop_app: fo.config.desktop_app, desktop_ok, cat: the dataset listing,
\* fail: which failable call raises).
Init__(ctx, a, e) ==
    LET self0 == [Unborn EXCEPT !.status = "constructing", !._context = ctx,
                     !._port = a.port, !._remote = a.remote,
                     !._auto = a.auto, !._height = a.height]
        run1 == Exec(InitialSteps(self0, a.dataset, a.view, e.cat),
                     EmptyState, <<>>, e.fail)
        self1 == [self0 EXCEPT
                     !._desktop = ResolveDesktop(ctx, a.desktop, e.desktop_app),
                     !.has_start_time = TRUE]
        run2 == Exec(ValidateSteps(self1, e.desktop_ok), run1.state,
                     run1.events, 0)
    IN  IF run1.outcome = "error"
        THEN [self |-> [self0 EXCEPT !.status = "failed",
                                     !.state = run1.state],
              events |-> run1.events, outcome |-> "error"]
        ELSE [self |-> [self1 EXCEPT
                          !.status = IF run2.outcome = "ok" THEN "active"
                                     ELSE "failed",
                          !.state = run2.state,
                          !._app_service =
                              (\E i \in 1..Len(run2.events) :
                                  run2.events[i].k = "app_service")],
              events |-> run2.events, outcome |-> run2.outcome]

\* The environment is asked for fo.config.desktop_app only at line 263 and
\* for the desktop package only at line 280; an answer nobody asks for is
\* left at its default, and fail numbers a failable call the call makes.
Asked(ctx, a, e) ==
    /\ (a.desktop # None \/ ctx # NONE) => ~e.desktop_app
    /\ ~(ctx = NONE /\ ~a.remote
          /\ ResolveDesktop(ctx, a.desktop, e.desktop_app)) => e.desktop_ok

\* The events of the registry part of __init__ (lines 246-253).
AcquireEvents(services, port) ==
    (IF StartsService(services, port) THEN <<Step("start", port, "")>>
     ELSE <<>>) \o <<Step("subscribe", port, "")>>

\* ------------------------------------------------------------- __del__
\* lines 307-312: reading _start_time of an object whose __init__ raised
\* before line 269 raises AttributeError, which the bare except swallows
\* together with the rest of the try block.
DelRaises(self) == ~self._disable_wait_warning /\ ~self.has_start_time

\* line 315
SubscribedAfterDel(subs, port, s) == [subs EXCEPT ![port] = @ \ {s}]

\* the check of line 317 left out: __del__ stops the process of its port
\* whoever else subscribes to it
StopsServiceWithSubscribers(subs, services, port) == port \in services

\* lines 317-321 left out: __del__ never stops a process
StopsServiceNever(subs, services, port) == FALSE

\* lines 317-321
StopsService(subs, services, port) == subs[port] = {} /\ port \in services

\* ------------------------------------------------------------- the calls
\* The record of the last call: the operation, the session it acted on, its
\* arguments, how it ended, and its events in the order they happened.
Call(op, s, args, outcome, events) ==
    [op |-> op, self |-> s, args |-> args, outcome |-> outcome,
     events |-> events]

\* The session id the next Session(...) gets.
Fresh(s) ==
    /\ s \in SessionIds
    /\ sessions[s].status = "unborn"
    /\ \A r \in SessionIds : r < s => sessions[r].status # "unborn"

Active(s) == s \in SessionIds /\ sessions[s].status = "active"

\* Session(...) called directly
Construct(s, a, e) ==
    /\ Fresh(s)
    /\ Asked(context, a, e)
    /\ \E r \in {Init__(context, a, e)} :
           /\ sessions' = [sessions EXCEPT ![s] = r.self]
           /\ lastCall' = Call("Session", s, a, r.outcome,
                               AcquireEvents(_server_services, a.port)
                                   \o r.events)
    /\ _server_services' = ServicesAfterInit(_server_services, a.port)
    /\ processes' = ProcessesAfterInit(processes, _server_services, a.port)
    /\ _subscribed_sessions' =
           SubscribedAfterInit(_subscribed_sessions, a.port, s)
    /\ UNCHANGED <<context, _session>>

\* Session.__del__; young: the session is younger than 2.5 seconds
Destroy(s, young) ==
    /\ s \in SessionIds
    /\ sessions[s].status # "unborn"
    /\ LET self == sessions[s]
           port == self._port
           subs == SubscribedAfterDel(_subscribed_sessions, port, s)
           stops == StopsService(subs, _server_services, port)
           warns == ~self._disable_wait_warning /\ young
       IN  /\ IF DelRaises(self)
              THEN /\ UNCHANGED <<_server_services, _subscribed_sessions,
                                  processes>>
                   /\ lastCall' = Call("__del__", s, young, "ok",
                                       <<Step("swallow", port, "")>>)
              ELSE /\ _subscribed_sessions' = subs
                   /\ _server_services' =
                          IF stops THEN _server_services \ {port}
                          ELSE _server_services
                   /\ processes' =
                          IF stops
                          THEN [processes EXCEPT
                                   ![port] = IF @ > 0 THEN @ - 1 ELSE @]
                          ELSE processes
                   /\ lastCall' = Call("__del__", s, young, "ok",
                          (IF warns THEN <<Step("warn_wait", port, "")>>
                           ELSE <<>>)
                          \o <<Step("unsubscribe", port,
                                    s \in _subscribed_sessions[port])>>
                          \o (IF stops THEN <<Step("stop", port, "")>>
                              ELSE <<>>))
           /\ sessions' = [sessions EXCEPT ![s].status = "destroyed"]
    /\ UNCHANGED <<context, _session>>

\* a transactional call: an exception restores the state of before the call
RunAtomic(steps, state, fail) ==
    LET r == Exec(steps, state, <<>>, fail)
    IN  IF r.outcome = "error" THEN [r EXCEPT !.state = state] ELSE r

\* A call of a method body on a StateDescription: the steps run in order and
\* an exception leaves the writes made so far in place (nothing is undone).
Run(steps, state, fail) == Exec(steps, state, <<>>, fail)

\* A method of an active session whose body is the step sequence steps.
Method(op, s, arg, steps, fail) ==
    /\ \E r \in {Run(steps, sessions[s].state, fail)} :
           /\ sessions' = [sessions EXCEPT ![s].state = r.state]
           /\ lastCall' = Call(op, s, arg, r.outcome, r.events)
    /\ UNCHANGED <<context, _session, _server_services,
                   _subscribed_sessions, processes>>

Close(s, fail) ==
    Active(s) /\ Method("close", s, None, close(sessions[s]), fail)

SetDataset(s, dataset, cat, fail) ==
    Active(s) /\ Method("set_dataset", s, dataset,
                        set_dataset(sessions[s], dataset, cat), fail)

SetView(s, view, cat, fail) ==
    Active(s) /\ Method("set_view", s, view,
                        set_view(sessions[s], view, cat), fail)

ClearDataset(s, cat, fail) ==
    Active(s) /\ Method("clear_dataset", s, None,
                        clear_dataset(sessions[s], cat), fail)

ClearView(s, cat, fail) ==
    Active(s) /\ Method("clear_view", s, None,
                        clear_view(sessions[s], cat), fail)

RefreshCall(s, cat, fail) ==
    Active(s) /\ Method("refresh", s, None,
                        refresh(sessions[s], cat), fail)

Show(s, height, cat, fail) ==
    Active(s) /\ Method("show", s, height,
                        show(sessions[s], height, cat), fail)

\* The App writes the user's selection and filters into the state.
AppUpdate(s, u) ==
    /\ Active(s)
    /\ sessions' = [sessions EXCEPT
                       ![s].state.selected = u.selected,
                       ![s].state.selected_objects = u.selected_objects,
                       ![s].state.filters = u.filters]
    /\ lastCall' = Call("app_update", s, u, "ok", <<>>)
    /\ UNCHANGED <<context, _session, _server_services,
                   _subscribed_sessions, processes>>

Open(s) == Active(s) /\ Method("open", s, None, open(sessions[s]), 0)

\* ---------------------------------------------------------------- wait
\* No call of wait() is in progress: the caller's thread is free.
Unblocked == \A s \in SessionIds : sessions[s].pc = "idle"

\* the fallback of lines 542-544 left out: wait() on a port without an entry
\* ends at once
WaitTargetNoFallback(self, services) ==
    IF self._remote \/ ~self._desktop
    THEN IF self._port \in services THEN "service_wait" ELSE "idle"
    ELSE "app_wait"

\* lines 539-546: what wait() blocks on.  Without an entry for the port line
\* 541 raises KeyError, which the bare except of line 542 turns into the
\* sleep loop.
WaitTarget(self, services) ==
    IF self._remote \/ ~self._desktop
    THEN IF self._port \in services THEN "service_wait" ELSE "sleep_loop"
    ELSE "app_wait"

\* wait() is called on a session the caller holds (one whose __init__
\* returned).  A server process that has already exited ends the wait of
\* line 541 at once.
WaitCall(s) ==
    /\ s \in SessionIds
    /\ sessions[s].status \in {"active", "destroyed"}
    /\ Unblocked
    /\ LET self == sessions[s]
           t == WaitTarget(self, _server_services)
           over == t = "idle" \/ (t = "service_wait"
                                   /\ processes[self._port] = 0)
       IN  /\ sessions' = [sessions EXCEPT
                              ![s].pc = IF over THEN "idle" ELSE t]
           /\ lastCall' = Call("wait", s, None,
                               IF over THEN "ok" ELSE "blocked",
                               <<Step("block", self._port, t)>>
                               \o (IF over
                                   THEN <<Step("return", self._port, t)>>
                                   ELSE <<>>))
    /\ UNCHANGED <<context, _session, _server_services,
                   _subscribed_sessions, processes>>

\* The sessions blocked in line 541 on the server process of port p.
WaitingOn(p) ==
    {s \in SessionIds :
        sessions[s].pc = "service_wait" /\ sessions[s]._port = p}

\* The server process of port p exits (it is a separate OS process); the
\* wait of line 541 on it returns, and so does wait().
ServerExit(p) ==
    /\ p \in _server_services
    /\ processes[p] > 0
    /\ processes' = [processes EXCEPT ![p] = 0]
    /\ sessions' = [s \in SessionIds |->
                       IF s \in WaitingOn(p)
                       THEN [sessions[s] EXCEPT !.pc = "idle"]
                       ELSE sessions[s]]
    /\ lastCall' =
           IF WaitingOn(p) # {}
           THEN Call("server_exit", CHOOSE s \in WaitingOn(p) : TRUE, p,
                     "ok", <<Step("return", p, "service_wait")>>)
           ELSE Call("server_exit", NoSession, p, "ok", <<>>)
    /\ UNCHANGED <<context, _session, _server_services,
                   _subscribed_sessions>>

\* The desktop App exits; the wait of line 546 returns, and so does wait().
AppExit(s) ==
    /\ s \in SessionIds
    /\ sessions[s].pc = "app_wait"
    /\ sessions' = [sessions EXCEPT ![s].pc = "idle"]
    /\ lastCall' = Call("app_exit", s, None, "ok",
                        <<Step("return", sessions[s]._port, "app_wait")>>)
    /\ UNCHANGED <<context, _session, _server_services,
                   _subscribed_sessions, processes>>

\* KeyboardInterrupt is raised in the thread blocked in wait().  Raised in
\* line 541 it is caught by the bare except of line 542 and the call goes on
\* in the sleep loop; raised in line 544 or 546 it reaches the handler of
\* lines 547-549.
Interrupt(s) ==
    /\ s \in SessionIds
    /\ sessions[s].pc # "idle"
    /\ IF sessions[s].pc = "service_wait"
       THEN /\ sessions' = [sessions EXCEPT ![s].pc = "sleep_loop"]
            /\ lastCall' = Call("interrupt", s, "service_wait", "blocked",
                                <<Step("swallow", sessions[s]._port,
                                       "KeyboardInterrupt")>>)
       ELSE /\ sessions' = [sessions EXCEPT
                               ![s].pc = "idle",
                               ![s]._disable_wait_warning = TRUE]
            /\ lastCall' = Call("interrupt", s, sessions[s].pc, "error",
                                <<Step("raise", "KeyboardInterrupt",
                                       "wait")>>)
    /\ UNCHANGED <<context, _session, _server_services,
                   _subscribed_sessions, processes>>

\* close_app()
CloseApp(fail) ==
    /\ IF _session # NoSession
       THEN \E r \in {Run(close(sessions[_session]),
                          sessions[_session].state, fail)} :
                /\ sessions' = [sessions EXCEPT ![_session].state = r.state]
                /\ _session' = IF r.outcome = "ok" THEN NoSession
                               ELSE _session
                /\ lastCall' = Call("close_app", _session, None, r.outcome,
                                    r.events)
       ELSE /\ lastCall' = Call("close_app", NoSession, None, "ok", <<>>)
            /\ UNCHANGED <<sessions, _session>>
    /\ UNCHANGED <<context, _server_services, _subscribed_sessions,
                   processes>>

\* the global is bound to the new object before __init__ has returned
SessionAfterLaunchBindsFirst(s, outcome) == s

\* lines 130-140: close_app() has set _session to None, and the assignment
\* of line 132 only happens when Session(...) returns
SessionAfterLaunch(s, outcome) == IF outcome = "ok" THEN s ELSE NoSession

\* launch_app(...): close_app(), then _session = Session(...).  cfail: which
\* failable call of close_app() raises.
LaunchApp(s, a, e, cfail) ==
    /\ Fresh(s)
    /\ Asked(context, a, e)
    /\ LET old == _session
       IN  \E c \in {IF old # NoSession
                     THEN Run(close(sessions[old]), sessions[old].state,
                              cfail)
                     ELSE [state |-> EmptyState, events |-> <<>>,
                           outcome |-> "ok"]} :
           LET closed == IF old # NoSession
                         THEN [sessions EXCEPT ![old].state = c.state]
                         ELSE sessions
           IN  IF c.outcome = "error"
               THEN /\ sessions' = closed
                    /\ lastCall' = Call("launch_app", old, a, "error",
                                        c.events)
                    /\ UNCHANGED <<_session, _server_services,
                                   _subscribed_sessions, processes>>
               ELSE \E r \in {Init__(context, a, e)} :
                    /\ sessions' = [closed EXCEPT ![s] = r.self]
                    /\ _session' = SessionAfterLaunch(s, r.outcome)
                    /\ lastCall' = Call("launch_app", s, a, r.outcome,
                           c.events
                           \o AcquireEvents(_server_services, a.port)
                           \o r.events)
                    /\ _server_services' =
                           ServicesAfterInit(_server_services, a.port)
                    /\ processes' =
                           ProcessesAfterInit(processes, _server_services,
                                              a.port)
                    /\ _subscribed_sessions' =
                           SubscribedAfterInit(_subscribed_sessions, a.port, s)
    /\ UNCHANGED context

\* ------------------------------------------------------ specifications
Init ==
    /\ context \in Contexts
    /\ _session = NoSession
    /\ _server_services = {}
    /\ _subscribed_sessions = [p \in Ports |-> {}]
    /\ processes = [p \in Ports |-> 0]
    /\ sessions = [s \in SessionIds |-> Unborn]
    /\ lastCall = Call("none", NoSession, None, "ok", <<>>)

\* Spec: the registry.  Up to MaxSessions sessions are constructed, directly
\* or by launch_app, on either port, remote or not, and destroyed.
Args ==
    [dataset : {None}, view : {None}, port : Ports, remote : BOOLEAN,
     desktop : {"False"}, auto : {TRUE}, height : {DefaultHeight}]

Envs ==
    [desktop_app : {FALSE}, desktop_ok : {TRUE}, cat : {<<"d1">>},
     fail : {0}]

NewSession ==
    \E s \in SessionIds : Fresh(s) /\ \E a \in Args, e \in Envs :
        Construct(s, a, e)

Launch ==
    \E s \in SessionIds : Fresh(s) /\ \E a \in Args, e \in Envs,
        cfail \in 0..1 : LaunchApp(s, a, e, cfail)

Next ==
    \/ NewSession
    \/ \E s \in SessionIds, young \in BOOLEAN : Destroy(s, young)
    \/ Launch
    \/ \E cfail \in 0..1 : CloseApp(cfail)
    \/ \E s \in SessionIds, fail \in 0..1 : Close(s, fail)

Spec == Init /\ [][Next]_vars

\* SpecSession: the life of one session.  Session(...) is called once with
\* any arguments; the session is closed and destroyed.
SessionArgs ==
    [dataset : {None} \cup Datasets, view : {None} \cup Views, port : Ports,
     remote : BOOLEAN, desktop : DesktopArgs, auto : BOOLEAN,
     height : Heights]

SessionEnvs ==
    [desktop_app : BOOLEAN, desktop_ok : BOOLEAN, cat : Catalogs,
     fail : 0..MaxFailPoint]

NewSessionAnyArgs ==
    Fresh(1) /\ \E a \in SessionArgs, e \in SessionEnvs : Construct(1, a, e)

NextSession ==
    \/ NewSessionAnyArgs
    \/ \E young \in BOOLEAN : Destroy(1, young)
    \/ \E fail \in 0..1 : Close(1, fail)

SpecSession == Init /\ [][NextSession]_vars

\* SpecSync: the state of one session.  A local session is constructed on
\* port 7000 with no initial dataset or view; its mutators and show() are
\* then called in any order, while the App writes selections back.
SyncArgs ==
    [dataset : {None}, view : {None}, port : {7000}, remote : {FALSE},
     desktop : {None}, auto : BOOLEAN, height : Heights]

SyncEnvs ==
    [desktop_app : {FALSE}, desktop_ok : {TRUE}, cat : Catalogs, fail : {0}]

\* The user selects samples, selects objects, sets a filter, or clears all.
AppUpdates ==
    {[selected |-> <<>>, selected_objects |-> <<>>, filters |-> {}],
     [selected |-> SomeSelected, selected_objects |-> <<>>, filters |-> {}],
     [selected |-> <<>>, selected_objects |-> SomeObjects, filters |-> {}],
     [selected |-> <<>>, selected_objects |-> <<>>, filters |-> SomeFilters]}

NewLocalSession ==
    Fresh(1) /\ \E a \in SyncArgs, e \in SyncEnvs : Construct(1, a, e)

NextSync ==
    \/ NewLocalSession
    \/ \E d \in {None} \cup Datasets, cat \in Catalogs,
          fail \in 0..MaxFailPoint : SetDataset(1, d, cat, fail)
    \/ \E v \in {None} \cup Views, cat \in Catalogs,
          fail \in 0..MaxFailPoint : SetView(1, v, cat, fail)
    \/ \E cat \in Catalogs, fail \in 0..MaxFailPoint :
           ClearDataset(1, cat, fail)
    \/ \E cat \in Catalogs, fail \in 0..MaxFailPoint : ClearView(1, cat, fail)
    \/ \E cat \in Catalogs, fail \in 0..MaxFailPoint :
           RefreshCall(1, cat, fail)
    \/ \E h \in Heights, cat \in Catalogs, fail \in 0..MaxFailPoint :
           Show(1, h, cat, fail)
    \/ \E u \in AppUpdates : AppUpdate(1, u)

SpecSync == Init /\ [][NextSync]_vars

\* SpecApp: the App is only ever launched and closed through launch_app
\* and close_app.
NextApp ==
    \/ Launch
    \/ \E cfail \in 0..1 : CloseApp(cfail)

SpecApp == Init /\ [][NextApp]_vars

\* SpecWait: a session of any mode is constructed, opened, closed and
\* destroyed, and the caller waits on it: wait() blocks the caller's thread
\* until the server process or the desktop App exits or the user interrupts.
WaitArgs ==
    [dataset : {None}, view : {None}, port : Ports, remote : BOOLEAN,
     desktop : DesktopArgs, auto : {TRUE}, height : {DefaultHeight}]

WaitEnvs ==
    [desktop_app : BOOLEAN, desktop_ok : BOOLEAN, cat : {<<"d1">>},
     fail : {0}]

NewWaitSession ==
    Fresh(1) /\ Unblocked
        /\ \E a \in WaitArgs, e \in WaitEnvs : Construct(1, a, e)

NextWait ==
    \/ NewWaitSession
    \/ \E young \in BOOLEAN : Unblocked /\ Destroy(1, young)
    \/ Unblocked /\ Open(1)
    \/ \E fail \in 0..1 : Unblocked /\ Close(1, fail)
    \/ WaitCall(1)
    \/ \E p \in Ports : ServerExit(p)
    \/ AppExit(1)
    \/ Interrupt(1)

SpecWait == Init /\ [][NextWait]_vars

\* SpecLife: the registry under constructions that fail.  Session(...) and
\* launch_app(...) are called with arguments and environments under which
\* __init__ raises at each of its raise points: in the initial dataset
\* setter (before _start_time is set), at the remote/notebook check, at the
\* desktop import and at the desktop/notebook check.  The arguments are a
\* plain local session on either port and, on port 5151, a remote session,
\* a desktop session and a local session with an initial dataset.
LifeArgs ==
    {a \in [dataset : {None, "d1"}, view : {None}, port : Ports,
            remote : BOOLEAN, desktop : {"False", "True"}, auto : {FALSE},
            height : {DefaultHeight}] :
        \/ a.dataset = None /\ ~a.remote /\ a.desktop = "False"
        \/ a.port = 5151 /\ a.dataset = None /\ a.remote # (a.desktop = "True")
        \/ a.port = 5151 /\ ~a.remote /\ a.desktop = "False"}

LifeEnvs ==
    [desktop_app : {FALSE}, desktop_ok : BOOLEAN, cat : {<<"d1">>},
     fail : 0..1]

NewSessionMayFail ==
    \E s \in SessionIds : Fresh(s) /\ \E a \in LifeArgs, e \in LifeEnvs :
        Construct(s, a, e)

LaunchMayFail ==
    \E s \in SessionIds : Fresh(s) /\ \E a \in LifeArgs, e \in LifeEnvs :
        LaunchApp(s, a, e, 0)

NextLife ==
    \/ NewSessionMayFail
    \/ \E s \in SessionIds : Destroy(s, FALSE)
    \/ LaunchMayFail
    \/ CloseApp(0)
    \/ \E s \in SessionIds : Close(s, 0)

SpecLife == Init /\ [][NextLife]_vars

\* ---------------------------------------------------------------- claims
Events == lastCall.events
EventAt(k) == {i \in 1..Len(Events) : Events[i].k = k}
HasEvent(k) == EventAt(k) # {}
AllSubscribed == UNION {_subscribed_sessions[p] : p \in Ports}
Constructs == {"Session", "launch_app"}
\* the session the last call acted on
Self == sessions[lastCall.self]

\* C1: The sessions subscribed to a port share one server process: a port
\* with N >= 1 subscribers has an entry in the process table and exactly one
\* running process, so that the 2nd..Nth construction on the port starts
\* none (it starts one exactly when it is the only subscriber afterwards);
\* destroying a constructed session unsubscribes it, leaves the process
\* running while another subscriber remains, and stops the process and
\* removes the port's entry when it was the last.
C1_OneProcessPerPort ==
    /\ \A p \in Ports :
          IF _subscribed_sessions[p] # {}
          THEN p \in _server_services /\ processes[p] = 1
          ELSE p \notin _server_services /\ processes[p] = 0
    /\ (lastCall.op \in Constructs /\ HasEvent("subscribe")) =>
          /\ lastCall.self \in _subscribed_sessions[Self._port]
          /\ HasEvent("start") <=>
                 _subscribed_sessions[Self._port] = {lastCall.self}
    /\ (lastCall.op = "__del__" /\ Self.has_start_time) =>
          /\ lastCall.self \notin AllSubscribed
          /\ HasEvent("stop") => _subscribed_sessions[Self._port] = {}

\* Two sessions shared a port, one of them has been destroyed and the
\* process is still running for the other.
C1_Witness ==
    /\ lastCall.op = "__del__"
    /\ HasEvent("unsubscribe") /\ ~HasEvent("stop")
    /\ _subscribed_sessions[Self._port] # {}
    /\ processes[Self._port] = 1

\* C2: When launch_app is called on port P while the session of an earlier
\* launch_app on P is the active session (and the only subscriber of P),
\* then after the call has returned the subscriber set of P has exactly one
\* member, the new session.
C2_LaunchReleasesPrior ==
    [][(/\ lastCall'.op = "launch_app"
        /\ lastCall'.outcome = "ok"
        /\ _session # NoSession
        /\ sessions[_session]._port = lastCall'.args.port
        /\ _subscribed_sessions[lastCall'.args.port] = {_session})
       => _subscribed_sessions'[lastCall'.args.port] = {lastCall'.self}]_vars

\* C3: In every state reached through launch_app and close_app alone at most
\* one session is subscribed across all ports, and after a successful
\* launch_app the new session is the only subscriber and its port the only
\* one with a server process.
C3_PriorFullyDestroyed ==
    /\ Cardinality(AllSubscribed) <= 1
    /\ (lastCall.op = "launch_app" /\ lastCall.outcome = "ok") =>
          /\ AllSubscribed = {lastCall.self}
          /\ _server_services = {Self._port}
          /\ \A p \in Ports : processes[p] = IF p = Self._port THEN 1 ELSE 0

\* C4: Session(remote=True) in a notebook context fails, and the failed
\* construction leaves the process table and every subscriber set as they
\* were before the call.
C4_RemoteNotebookAcquiresNothing ==
    [][(/\ lastCall'.op = "Session"
        /\ lastCall'.args.remote
        /\ context # NONE)
       => /\ lastCall'.outcome = "error"
          /\ UNCHANGED <<_server_services, _subscribed_sessions,
                         processes>>]_vars

\* C5: Session(desktop=True) in a notebook context always fails, whatever
\* remote, dataset and view are, and no session in a notebook context is
\* ever active in desktop mode.
C5_DesktopNotebookFails ==
    /\ (/\ lastCall.op = "Session"
        /\ lastCall.args.desktop = "True"
        /\ context # NONE)
       => lastCall.outcome = "error" /\ Self.status = "failed"
    /\ \A s \in SessionIds :
          sessions[s].status = "active" =>
              ~(sessions[s]._desktop /\ sessions[s]._context # NONE)

\* A local desktop session was asked for in a notebook, and refused by the
\* check of lines 291-295.
C5_Witness ==
    /\ lastCall.op = "Session"
    /\ lastCall.args.desktop = "True" /\ ~lastCall.args.remote
    /\ lastCall.args.view # None
    /\ context # NONE
    /\ \E i \in EventAt("raise") : Events[i].f = "desktop_notebook"

\* C6: After a call of the dataset setter or of the view setter has
\* returned, selected, selected_objects and filters are empty; after the
\* dataset setter the view is None and the dataset is the argument; after
\* the view setter with a view, the view is the argument and the dataset is
\* the view's dataset.
C6_SettersClearSelection ==
    (lastCall.op \in {"set_dataset", "set_view"} /\ lastCall.outcome = "ok")
    => /\ Self.state.selected = <<>>
       /\ Self.state.selected_objects = <<>>
       /\ Self.state.filters = {}
       /\ lastCall.op = "set_dataset" =>
             Self.state.view = None /\ Self.state.dataset = lastCall.args
       /\ (lastCall.op = "set_view" /\ lastCall.args # None) =>
             /\ Self.state.view = lastCall.args
             /\ Self.state.dataset = _dataset(lastCall.args)

\* The view setter has replaced another dataset by the view's dataset.
C6_Witness ==
    /\ lastCall.op = "set_view" /\ lastCall.outcome = "ok"
    /\ lastCall.args = "v1"
    /\ \E i \in EventAt("write") :
          Events[i].f = "dataset" /\ Events[i].v = Self.state.dataset
    /\ Self.state.filters = {}

\* C7: show() on a session whose context is NONE returns without raising,
\* renders nothing and pushes nothing.
C7_ShowOutsideNotebookIsNoOp ==
    (lastCall.op = "show" /\ Self._context = NONE)
    => /\ lastCall.outcome = "ok"
       /\ ~HasEvent("render")
       /\ ~HasEvent("push")

\* C8: In a notebook context with auto-show enabled, every render made
\* during the dataset setter, the view setter, clear_view or refresh comes
\* after a completed catalog refresh and push of the call.
C8_PushBeforeRender ==
    (/\ lastCall.op \in {"set_dataset", "set_view", "clear_view", "refresh"}
     /\ AutoShows(Self))
    => \A r \in EventAt("render") :
          \E q \in EventAt("push") :
              /\ q < r
              /\ \E c \in EventAt("refresh") : c < q

\* C9: In a notebook context with auto-show enabled, one call of the
\* dataset setter renders at most once, exactly once when the call returns,
\* and renders with the session's port and the session's configured height.
C9_OneRenderWithSessionHeight ==
    (lastCall.op = "set_dataset" /\ AutoShows(Self))
    => /\ Cardinality(EventAt("render")) <= 1
       /\ lastCall.outcome = "ok" => Cardinality(EventAt("render")) = 1
       /\ \A r \in EventAt("render") :
             Events[r].f = Self._port /\ Events[r].v = Self._height

\* The dataset setter has rendered for a session configured with a height
\* other than the default.
C9_Witness ==
    /\ lastCall.op = "set_dataset" /\ lastCall.outcome = "ok"
    /\ lastCall.args = "d2"
    /\ AutoShows(Self)
    /\ Self._height # DefaultHeight
    /\ HasEvent("render")

Mutators == {"set_dataset", "set_view", "clear_dataset", "clear_view"}

\* C10 as claimed: a mutator whose catalog refresh or push raises leaves the
\* StateDescription as it was before the call, and one that returns has
\* completed a push.
C10_AllOrNothing ==
    [][(lastCall'.op \in Mutators)
       => /\ lastCall'.outcome = "error" =>
                 sessions'[lastCall'.self].state =
                     sessions[lastCall'.self].state
          /\ lastCall'.outcome = "ok" =>
                 \E i \in 1..Len(lastCall'.events) :
                     lastCall'.events[i].k = "push"]_vars

\* C10 as amended: nothing is undone.  Whether the mutator returns or
\* raises, each field holds the last value the call wrote to it and datasets
\* holds the last catalog the call fetched; a call that returns ends with a
\* push of exactly this state, and one that raises ends at the catalog
\* refresh or push that raised.
C10_WritesStay ==
    (lastCall.op \in Mutators)
    => /\ \A i \in EventAt("write") :
             (\A j \in EventAt("write") : Events[j].f = Events[i].f => j <= i)
             => Self.state[Events[i].f] = Events[i].v
       /\ EventAt("write") # {}
       /\ \A i \in EventAt("refresh") :
             (\A j \in EventAt("refresh") : j <= i)
             => Self.state.datasets = Events[i].v
       /\ lastCall.outcome = "ok" =>
             /\ Events[Len(Events)].k = "push"
             /\ Events[Len(Events)].v = Self.state
       /\ lastCall.outcome = "error" =>
             /\ Events[Len(Events)].k = "raise"
             /\ Events[Len(Events)].v \in {"refresh", "push"}

\* The dataset setter raised and the new dataset is in the state all the
\* same, in place of the view's dataset.
C10_Witness ==
    /\ lastCall.op = "set_dataset" /\ lastCall.outcome = "error"
    /\ lastCall.args = "d2"
    /\ Self.state.dataset = "d2"
    /\ ~HasEvent("push")

\* C11: Every KeyboardInterrupt raised while wait() is blocked, whatever it
\* is blocked on, ends that wait(): the call raises the interrupt to its
\* caller, with _disable_wait_warning set.
C11_InterruptEndsWait ==
    (lastCall.op = "interrupt")
    => /\ lastCall.outcome = "error"
       /\ Self.pc = "idle"
       /\ Self._disable_wait_warning
       /\ \E i \in EventAt("raise") : Events[i].f = "KeyboardInterrupt"

\* C12: open() on an active session raises when the session is remote,
\* raises when the context is IPYTHON or COLAB, and otherwise opens the
\* browser (not desktop) or starts the desktop App (desktop), and does
\* nothing else: the session with its StateDescription, the process table
\* and the subscriber sets are as before, nothing is pushed, and the session
\* is still active.
C12_OpenOnlyOpens ==
    [][(lastCall'.op = "open")
       => LET s == lastCall'.self
              self == sessions[s]
              ev == lastCall'.events
          IN  /\ self.status = "active"
              /\ sessions'[s] = self
              /\ UNCHANGED <<_session, _server_services,
                             _subscribed_sessions, processes>>
              /\ Len(ev) = 1
              /\ IF self._remote
                 THEN /\ lastCall'.outcome = "error"
                      /\ ev[1].k = "raise" /\ ev[1].f = "remote_open"
                 ELSE IF self._context \in {IPYTHON, COLAB}
                 THEN /\ lastCall'.outcome = "error"
                      /\ ev[1].k = "raise" /\ ev[1].f = "notebook_open"
                 ELSE /\ lastCall'.outcome = "ok"
                      /\ ev[1].k = IF self._desktop THEN "desktop_start"
                                   ELSE "browser"
                      /\ ev[1].f = self._port]_vars

\* open() has started the desktop App of a local desktop session.
C12_Witness ==
    /\ lastCall.op = "open" /\ lastCall.outcome = "ok"
    /\ HasEvent("desktop_start")
    /\ Self.status = "active" /\ Self._desktop /\ Self._app_service

\* C13: close() on a session that is not remote sets state.close to True
\* and pushes exactly once, without a catalog refresh; close() on a remote
\* session changes nothing and pushes nothing.  Neither changes the
\* subscriber sets or the process table.
C13_CloseRequestsAndPushes ==
    [][(lastCall'.op = "close")
       => LET s == lastCall'.self
              self == sessions[s]
              ev == lastCall'.events
              pushes == {i \in 1..Len(ev) :
                            \/ ev[i].k = "push"
                            \/ ev[i].k = "raise" /\ ev[i].v = "push"}
          IN  /\ UNCHANGED <<_session, _server_services,
                             _subscribed_sessions, processes>>
              /\ IF self._remote
                 THEN /\ sessions' = sessions
                      /\ ev = <<>>
                      /\ lastCall'.outcome = "ok"
                 ELSE /\ sessions'[s] = [self EXCEPT !.state.close = TRUE]
                      /\ \A i \in 1..Len(ev) : ev[i].k # "refresh"
                      /\ Cardinality(pushes) = 1
                      /\ lastCall'.outcome = "ok" =>
                             /\ ev[Len(ev)].k = "push"
                             /\ ev[Len(ev)].v = sessions'[s].state]_vars

\* close() has pushed the close request of a local session that shows a
\* dataset.
C13_Witness ==
    /\ lastCall.op = "close" /\ lastCall.outcome = "ok"
    /\ ~Self._remote
    /\ Self.state.close /\ Self.state.dataset # None
    /\ Cardinality(EventAt("push")) = 1

\* C14: __del__ called on a session that has been destroyed before leaves
\* the process table, the running processes and every subscriber set as
\* they are; in particular it does not stop a process other sessions
\* subscribe to.
C14_SecondReleaseIsNoOp ==
    [][(/\ lastCall'.op = "__del__"
        /\ sessions[lastCall'.self].status = "destroyed")
       => UNCHANGED <<_server_services, _subscribed_sessions,
                      processes>>]_vars

\* __del__ ran on a session that was no longer subscribed, while another
\* session subscribes to its port and the port's process is running.
C14_Witness ==
    /\ lastCall.op = "__del__"
    /\ \E i \in EventAt("unsubscribe") : Events[i].v = FALSE
    /\ _subscribed_sessions[Self._port] # {}
    /\ Self._port \in _server_services
    /\ processes[Self._port] = 1

\* C15: In every state reached by constructions (returning or raising),
\* __del__, launch_app, close_app and close, a port has an entry in
\* _server_services if and only if its subscriber set is not empty.
C15_EntryIffSubscribed ==
    \A p \in Ports : p \in _server_services <=> _subscribed_sessions[p] # {}

\* A construction has raised; its port has an entry and the session that
\* failed is the port's only subscriber.
C15_Witness ==
    /\ lastCall.op \in Constructs /\ lastCall.outcome = "error"
    /\ Self.status = "failed"
    /\ Self._port \in _server_services
    /\ _subscribed_sessions[Self._port] = {lastCall.self}

\* C16: In a notebook context with auto-show enabled, every call of the
\* dataset setter, the view setter, clear_dataset and clear_view that
\* returns has rendered the App.
C16_MutatorsAutoShow ==
    (lastCall.op \in Mutators /\ AutoShows(Self) /\ lastCall.outcome = "ok")
    => HasEvent("render")

\* C17: After clear_dataset() has returned, whatever the state before the
\* call, the dataset property of the session reads None.
C17_ClearDatasetClears ==
    (lastCall.op = "clear_dataset" /\ lastCall.outcome = "ok")
    => dataset_of(Self.state) = None

SwappedFields == {"dataset", "view", "selected", "selected_objects", "filters"}

\* C18: wait() on a remote or non-desktop session blocks on the server
\* process of the session's port while that process runs, and returns
\* normally when (and only when) the process exits; when the port has no
\* entry in _server_services the call goes to the sleep loop, and a call in
\* the sleep loop ends only by raising an interrupt.
C18_WaitsForServerOrSleeps ==
    /\ [](\A s \in SessionIds :
            sessions[s].pc = "service_wait" =>
                /\ (sessions[s]._remote \/ ~sessions[s]._desktop)
                /\ sessions[s]._port \in _server_services
                /\ processes[sessions[s]._port] = 1)
    /\ [][\A s \in SessionIds :
            LET self == sessions[s]
                port == self._port
            IN  /\ (/\ lastCall'.op = "wait" /\ lastCall'.self = s
                    /\ self.pc = "idle"
                    /\ (self._remote \/ ~self._desktop))
                    => IF port \notin _server_services
                       THEN /\ sessions'[s].pc = "sleep_loop"
                            /\ lastCall'.outcome = "blocked"
                       ELSE IF processes[port] = 1
                       THEN /\ sessions'[s].pc = "service_wait"
                            /\ lastCall'.outcome = "blocked"
                       ELSE /\ sessions'[s].pc = "idle"
                            /\ lastCall'.outcome = "ok"
                /\ (self.pc = "service_wait" /\ processes'[port] = 0)
                    => /\ sessions'[s].pc = "idle"
                       /\ lastCall'.op = "server_exit"
                       /\ lastCall'.self = s /\ lastCall'.outcome = "ok"
                /\ (self.pc = "service_wait" /\ sessions'[s].pc = "idle")
                    => processes'[port] = 0
                /\ (self.pc = "sleep_loop" /\ sessions'[s].pc # "sleep_loop")
                    => /\ sessions'[s].pc = "idle"
                       /\ lastCall'.op = "interrupt"
                       /\ lastCall'.outcome = "error"]_vars

\* The server process of a remote session's port has exited while wait()
\* was blocked on it, and wait() has returned.
C18_Witness ==
    /\ lastCall.op = "server_exit" /\ lastCall.self # NoSession
    /\ HasEvent("return")
    /\ Self._remote /\ Self.pc = "idle"
    /\ processes[Self._port] = 0

\* C19: Every snapshot pushed during a call of the dataset setter or of the
\* view setter, with or without auto-show, carries the values of dataset,
\* view, selected, selected_objects and filters that the call leaves in the
\* state.
C19_NoPartialPush ==
    (lastCall.op \in {"set_dataset", "set_view"})
    => \A i \in EventAt("push") : \A f \in SwappedFields :
          Events[i].v[f] = Self.state[f]

\* The view setter has pushed twice, once from the show() of the auto-show
\* and once at the end of the call.
C19_Witness ==
    /\ lastCall.op = "set_view" /\ lastCall.outcome = "ok"
    /\ lastCall.args = "v1"
    /\ AutoShows(Self)
    /\ Cardinality(EventAt("push")) = 2

\* C20: Every subscriber of a port is a session whose __init__ returned,
\* and a process started by an __init__ that raised is not running
\* afterwards.
C20_SubscribersConstructed ==
    /\ \A s \in AllSubscribed : sessions[s].status # "failed"
    /\ (/\ lastCall.op \in Constructs /\ lastCall.outcome = "error"
        /\ HasEvent("start"))
       => processes[Self._port] = 0

\* C21: When Session(...) raises inside launch_app, _session is None after
\* the call and the session that was active before has been closed by then
\* (close() ran on it before the construction began); _session is only
\* ever bound by a launch_app that returned, to the session it constructed,
\* and so never to a session whose __init__ raised.
C21_FailedLaunchLeavesNone ==
    /\ [](_session # NoSession => sessions[_session].status # "failed")
    /\ [][/\ (/\ lastCall'.op = "launch_app"
               /\ lastCall'.outcome = "error"
               /\ \E i \in 1..Len(lastCall'.events) :
                      lastCall'.events[i].k = "subscribe")
              => /\ _session' = NoSession
                 /\ sessions'[lastCall'.self].status = "failed"
                 /\ (_session # NoSession /\ ~sessions[_session]._remote) =>
                        /\ sessions'[_session].state.close
                        /\ \E i, j \in 1..Len(lastCall'.events) :
                               /\ i < j
                               /\ lastCall'.events[i].k = "push"
                               /\ lastCall'.events[i].v.close
                               /\ lastCall'.events[j].k = "subscribe"
          /\ (_session' # _session /\ _session' # NoSession)
              => /\ lastCall'.op = "launch_app"
                 /\ lastCall'.outcome = "ok"
                 /\ lastCall'.self = _session'
                 /\ sessions[_session'].status = "unborn"
                 /\ sessions'[_session'].status = "active"]_vars

\* launch_app has closed the local session of an earlier launch_app, and
\* the construction of the new session has raised.
C21_Witness ==
    /\ lastCall.op = "launch_app" /\ lastCall.outcome = "error"
    /\ HasEvent("subscribe")
    /\ \E i \in EventAt("write") : Events[i].f = "close"
    /\ Self.status = "failed"
    /\ _session = NoSession

====
